---- MODULE Spec2Model ----
(***************************************************************************)
(* Model of the game-statistics services of the portfolio repository:      *)
(*   - the Blizzard OAuth token cache and the WoW adapter                   *)
(*     (src/src/services/blizzard.js, lines 1-243),                        *)
(*   - the Steam adapter (src/src/services/steam.js),                      *)
(*   - the NFT pagination walker (src/unnamed/part_000),                   *)
(*   - the Path of Exile service (src/src/services/blizzard.js, from line  *)
(*     245).                                                               *)
(* Suspension points are the awaits on fetch(); everything between two     *)
(* awaits of one async function runs in one step (JavaScript run to        *)
(* completion, microtasks before the next network event).  The two awaits  *)
(* of one request (fetch, then response.json()) are one step: nothing the  *)
(* function reads changes its meaning between them.                        *)
(*                                                                         *)
(* Specifications:                                                         *)
(*   Spec          the token cache used by two clients of getAccessToken   *)
(*   SpecWoW       fetchAllWoWData over the token cache                    *)
(*   SpecFetch     the WoW resource fetches called on their own            *)
(*   SpecNoCreds   the functions of the WoW adapter without credentials    *)
(*   SpecSteam     fetchAllSteamData      (FairSpecSteam: with fairness)   *)
(*   SpecNFT       fetchAllNFTs over a paged upstream                      *)
(*                                          (FairSpecNFT: with fairness)   *)
(*   SpecPOE       fetchAllPOE2Data                                        *)
(*   SpecAdapters  fetchAllWoWData or fetchAllPOE2Data                     *)
(*   SpecFetchAll  one of fetchAllWoWData, fetchAllPOE2Data,               *)
(*                 fetchAllSteamData                                       *)
(*   SpecOwnedGames  fetchOwnedGames mapping the games of a 200 body       *)
(*   SpecLive      the resource fetches mapping a 200 body                 *)
(*   SpecMock      the mock data functions called while time passes        *)
(***************************************************************************)
EXTENDS Integers, Sequences, FiniteSets, TLC

VARIABLES
    \* ---- blizzard.js module state
    accessToken,     \* let accessToken = null   (0 models null)
    tokenExpiry,     \* let tokenExpiry = 0      (epoch milliseconds)
    \* ---- environment of blizzard.js
    now,             \* Date.now()
    credsConfigured, \* wow.clientId && wow.clientSecret are set
    issued,          \* tokens the token endpoint has issued so far
    tokenRequests,   \* POST /oauth/token requests issued so far
    lastEvent,       \* the network event handled by the latest step
    \* ---- clients calling getAccessToken directly
    cpc,             \* per client: "idle" | "token"
    calls,           \* per client: log of its getAccessToken calls
    \* ---- the WoW adapter
    pc,              \* per resource fetch: "idle" | "token" | "data" | "done"
    res,             \* per resource: "none" | "live" | "mock" | "rejected"
    wowCall,         \* fetchAllWoWData: "idle" | "pending" | "returned" | "rejected"
    wowBundle,       \* what fetchAllWoWData returned
    invocations,     \* number of calls of the adapter's functions so far
    dataRequests,    \* GET requests issued by blizzardFetch so far
    \* ---- steam.js
    API_KEY,         \* config.steam.apiKey   ("" models none)
    STEAM_ID,        \* config.steam.steamId, a sequence of digits (<<>> models none)
    spc,             \* per Steam resource: "idle" | "wait" | "hung" | "done"
    sres,            \* per Steam resource: "none" | "live" | "mock" | "rejected"
    steamCall,       \* fetchAllSteamData: "idle" | "pending" | "returned" | "rejected"
    steamBundle,     \* what fetchAllSteamData returned
    steamRequests,   \* HTTP requests issued by steam.js so far
    steamEvent,      \* the response handled by the latest step
    \* ---- part_000 (NFT service)
    address,         \* walletAddress || config.wallet.address  ("" models none)
    source,          \* the upstream: "any" | "paged" | "finite" | "nonempty" | "empty"
    maxNFTs,         \* fetchAllNFTs' maxNFTs argument
    npc,             \* fetchAllNFTs: "idle" | "fetching" | "returned" | "rejected"
    pageRequests,    \* page requests issued so far
    allNFTs,         \* const allNFTs = []
    continuation,    \* let continuation = null  (0 models null)
    served,          \* log of the pages the upstream served, in request order
    nftResult,       \* the array fetchAllNFTs returned
    nftEvent,        \* what the latest step of the walk met: "none" | "ok" |
                     \* "http" | "network" | "noWallet"
    \* ---- the Path of Exile service (blizzard.js, lines 245-510)
    ppc,             \* per POE resource fetch: "idle" | "wait" | "done"
    pres,            \* per POE resource: what its fetch returned
    poeCall,         \* fetchAllPOE2Data: "idle" | "pending" | "returned" | "rejected"
    poeBundle,       \* what fetchAllPOE2Data returned
    poeEvent,        \* the response handled by the latest step
    \* ---- the mapping of one 200 response body by a resource fetch
    normFn,          \* the resource fetch that maps the body
    normInput,       \* the part of the body it reads
    normDone,        \* the fetch has returned
    normOutput,      \* what it returned
    \* ---- callers of the mock data functions
    mockReturned

tokenVars == <<accessToken, tokenExpiry, now, credsConfigured, issued, tokenRequests,
               lastEvent>>
clientVars == <<cpc, calls>>
wowVars == <<pc, res, wowCall, wowBundle, invocations, dataRequests>>
steamVars == <<API_KEY, STEAM_ID, spc, sres, steamCall, steamBundle, steamRequests,
               steamEvent>>
nftVars == <<address, source, maxNFTs, npc, pageRequests, allNFTs, continuation, served,
             nftResult, nftEvent>>
poeVars == <<ppc, pres, poeCall, poeBundle, poeEvent>>
normVars == <<normFn, normInput, normDone, normOutput>>
mockVars == <<mockReturned>>
vars == <<tokenVars, clientVars, wowVars, steamVars, nftVars, poeVars, normVars,
          mockVars>>

(***************************************************************************)
(* Bounds of the model.                                                    *)
(***************************************************************************)
MaxTicks == 3
MaxInvocations == 2
MaxCalls == 2
MaxPageSize == 2      \* items on a page of the "any" upstream
MaxMaxNFTs == 4       \* maxNFTs given to fetchAllNFTs over the "any" upstream
MaxRequests == 5      \* page requests that are answered
MaxGames == 3         \* games in a GetOwnedGames response
MaxLeagues == 2       \* leagues in a body of the league endpoint
MaxMinutes == 6       \* playtime_forever of a game, besides ScenarioMinutes
ScenarioMinutes == 18420
ScenarioItems == 237  \* items held by the "paged" upstream

(***************************************************************************)
(* Program constants.                                                      *)
(***************************************************************************)
SafetyMarginS == 300
MsPerSecond == 1000
PageLimit == 50       \* fetchNFTsForWallet(..., limit = 50)
DefaultMaxNFTs == 200 \* fetchAllNFTs(..., maxNFTs = 200)

TickMs == 100 * MsPerSecond
StartNow == TickMs
MaxNow == StartNow + MaxTicks * TickMs
\* expires_in values (seconds) the token endpoint may answer with
ExpiresInChoices == {200, 400}

NoToken == 0                 \* null
Rejected == NoToken - 1      \* the promise rejected instead of resolving
Pending == NoToken - 2       \* the call has not returned yet

Resources == {"profile", "mythicPlus", "raids"}
Clients == {"c1", "c2"}
ExchangeOutcomes == {"ok", "http", "network"}
ExchangeFailures == {"http", "network"}
DataOutcomes == {"ok", "http", "network"}
NoBundle == [profile |-> "none", mythicPlus |-> "none", raids |-> "none",
             isMockData |-> FALSE]
NoEvent == [kind |-> "none", who |-> "none", outcome |-> "none", ret |-> Pending,
            expiresIn |-> 0]

(***************************************************************************)
(* Token Manager: getAccessToken                                           *)
(***************************************************************************)
\* The cache test with the safety margin subtracted a second time.
IsCachedValidMarginTwice ==
    accessToken # NoToken /\ now + SafetyMarginS * MsPerSecond < tokenExpiry

\* if (accessToken && Date.now() < tokenExpiry)
IsCachedValid == accessToken # NoToken /\ now < tokenExpiry

\* getAccessToken without its test of the credentials.
GetAccessTokenStartNoCredsCheck ==
    IF IsCachedValid THEN "cached" ELSE "exchange"

\* The synchronous prefix of getAccessToken, up to its first await.
GetAccessTokenStart ==
    IF IsCachedValid THEN "cached"
    ELSE IF ~credsConfigured THEN "absent"
    ELSE "exchange"

\* The expiry without the safety margin.
NewExpiryNoMargin(t, expiresIn) == t + expiresIn * MsPerSecond

\* tokenExpiry = Date.now() + (data.expires_in - 300) * 1000
NewExpiry(t, expiresIn) == t + (expiresIn - SafetyMarginS) * MsPerSecond

\* The cache after an exchange answered: written on success only.
\* A cache that stores the new token but keeps a later expiry it already has.
CacheAfterKeepLaterExpiry(outcome, tokval, expiresIn) ==
    IF outcome = "ok"
    THEN [accessToken |-> tokval,
          tokenExpiry |-> IF tokenExpiry > NewExpiry(now, expiresIn)
                          THEN tokenExpiry ELSE NewExpiry(now, expiresIn)]
    ELSE [accessToken |-> accessToken, tokenExpiry |-> tokenExpiry]

CacheAfter(outcome, tokval, expiresIn) ==
    IF outcome = "ok"
    THEN [accessToken |-> tokval, tokenExpiry |-> NewExpiry(now, expiresIn)]
    ELSE [accessToken |-> accessToken, tokenExpiry |-> tokenExpiry]

\* getAccessToken without its catch block: a failed exchange rejects.
GetAccessTokenResultNoCatch(outcome, tokval) ==
    IF outcome = "ok" THEN tokval ELSE Rejected

\* What getAccessToken returns once the exchange answered: the token on
\* success; the catch block turns every failure into null.
GetAccessTokenResult(outcome, tokval) ==
    IF outcome = "ok" THEN tokval ELSE NoToken

\* The token endpoint answers an exchange: every successful exchange is
\* handed a token of its own.
ExchangeAnswered(who, outcome, expiresIn) ==
    LET tokval == issued + 1
        cache == CacheAfter(outcome, tokval, expiresIn)
    IN /\ accessToken' = cache.accessToken
       /\ tokenExpiry' = cache.tokenExpiry
       /\ issued' = IF outcome = "ok" THEN tokval ELSE issued
       /\ lastEvent' = [kind |-> "token", who |-> who, outcome |-> outcome,
                        ret |-> GetAccessTokenResult(outcome, tokval),
                        expiresIn |-> IF outcome = "ok" THEN expiresIn ELSE 0]

\* getAccessToken() called by client c; a client makes one call at a time.
GetAccessTokenCall(c) ==
    /\ cpc[c] = "idle"
    /\ Len(calls[c]) < MaxCalls
    /\ LET d == GetAccessTokenStart
           t == IF d = "cached" THEN accessToken
                ELSE IF d = "absent" THEN NoToken ELSE Pending
       IN /\ calls' = [calls EXCEPT ![c] =
                         Append(@, [before |-> now < tokenExpiry,
                                    cached |-> accessToken, ret |-> t,
                                    net |-> (d = "exchange")])]
          /\ cpc' = [cpc EXCEPT ![c] = IF d = "exchange" THEN "token" ELSE "idle"]
          /\ tokenRequests' = tokenRequests + (IF d = "exchange" THEN 1 ELSE 0)
    /\ lastEvent' = NoEvent
    /\ UNCHANGED <<accessToken, tokenExpiry, now, credsConfigured, issued>>
    /\ UNCHANGED <<wowVars, steamVars, nftVars, poeVars, normVars, mockVars>>

\* The token endpoint answers client c's exchange.
ClientTokenResponse(c, outcome, expiresIn) ==
    /\ cpc[c] = "token"
    /\ ExchangeAnswered(c, outcome, expiresIn)
    /\ calls' = [calls EXCEPT ![c][Len(calls[c])].ret =
                    GetAccessTokenResult(outcome, issued + 1)]
    /\ cpc' = [cpc EXCEPT ![c] = "idle"]
    /\ UNCHANGED <<now, credsConfigured, tokenRequests>>
    /\ UNCHANGED <<wowVars, steamVars, nftVars, poeVars, normVars, mockVars>>

\* The clock advances.
Tick ==
    /\ now < MaxNow
    /\ now' = now + TickMs
    /\ lastEvent' = NoEvent
    /\ UNCHANGED <<accessToken, tokenExpiry, credsConfigured, issued, tokenRequests>>
    /\ UNCHANGED <<clientVars, wowVars, steamVars, nftVars, poeVars, normVars, mockVars>>

(***************************************************************************)
(* WoW adapter: blizzardFetch, fetchCharacterProfile,                      *)
(* fetchMythicPlusProfile, fetchRaidProgress, fetchAllWoWData              *)
(***************************************************************************)
\* blizzardFetch issuing its request whatever getAccessToken gave.
BlizzardFetchAfterTokenNoNullCheck(t) ==
    IF t = Rejected THEN "rejected" ELSE "request"

\* blizzardFetch after `await getAccessToken()` gave t: the await is outside
\* the try block, so a rejection propagates; a falsy token returns null
\* without a request; otherwise the data request is issued.
BlizzardFetchAfterToken(t) ==
    IF t = Rejected THEN "rejected"
    ELSE IF t = NoToken THEN "null"
    ELSE "request"

\* fetchCharacterProfile / fetchMythicPlusProfile / fetchRaidProgress on the
\* value blizzardFetch resolved with: null gives the mock dataset; a body
\* gives the normalized live data, except that fetchRaidProgress falls through
\* to the mock dataset when the last expansion has no instances.
ResourceResult(r, data, hasInstances) ==
    IF data = "null" THEN "mock"
    ELSE IF r = "raids" /\ ~hasInstances THEN "mock"
    ELSE "live"

\* getMockCharacterProfile(), without the name, realm and lastLogin it takes
\* from the configuration and the clock.
GetMockCharacterProfile ==
    [class |-> "Death Knight", race |-> "Blood Elf", level |-> 80,
     faction |-> "Horde", itemLevel |-> 623, averageItemLevel |-> 625,
     guild |-> "Sample Guild"]

\* The class of the profile fetchCharacterProfile returned, the API body
\* naming liveClass ("" when it names none):
\* `class: data.character_class?.name || 'Unknown'`.
CharacterProfileClass(result, liveClass) ==
    IF result = "mock" THEN GetMockCharacterProfile.class
    ELSE IF liveClass = "" THEN "Unknown"
    ELSE liveClass

\* blizzardFetch on the response of its data request: !response.ok and a
\* network error are both caught and give null.
BlizzardFetchData(outcome) ==
    IF outcome = "ok" THEN "body" ELSE "null"

\* Promise.all over the three resource promises.
PromiseAllWoW(r2) ==
    IF \E r \in Resources : r2[r] = "rejected" THEN "rejected"
    ELSE IF \A r \in Resources : r2[r] # "none" THEN "returned"
    ELSE "pending"

\* return { profile, mythicPlus, raids, isMockData: !accessToken }
WoWBundle(r2, tokenAtReturn) ==
    [profile |-> r2["profile"], mythicPlus |-> r2["mythicPlus"],
     raids |-> r2["raids"], isMockData |-> (tokenAtReturn = NoToken)]

\* The continuation of fetchAllWoWData once the resource results are r2.
JoinWoW(r2, tokenAtReturn) ==
    /\ wowCall' = PromiseAllWoW(r2)
    /\ wowBundle' = IF PromiseAllWoW(r2) = "returned"
                    THEN WoWBundle(r2, tokenAtReturn)
                    ELSE wowBundle

\* fetchAllWoWData(): the three fetches start in the same synchronous turn,
\* so each getAccessToken sees the same cache.
\* A caller that starts the first of the fetches only.
StartedFirstOnly(resources) == {CHOOSE r \in resources : TRUE}

\* Promise.all([fetchA(), fetchB(), ...]): the array literal calls every fetch,
\* each up to its first await, before Promise.all is entered.
StartedByFetchAll(resources) == resources

FetchAllWoWData ==
    /\ wowCall \in {"idle", "returned"}
    /\ invocations < MaxInvocations
    /\ invocations' = invocations + 1
    /\ LET d == GetAccessTokenStart
           r2 == [r \in Resources |->
                    IF d = "absent" THEN ResourceResult(r, "null", FALSE)
                    ELSE "none"]
       IN /\ pc' = [r \in Resources |->
                      IF r \notin StartedByFetchAll(Resources) THEN pc[r]
                      ELSE IF d = "cached" THEN "data"
                      ELSE IF d = "absent" THEN "done" ELSE "token"]
          /\ tokenRequests' = tokenRequests +
                                (IF d = "exchange" THEN Cardinality(Resources) ELSE 0)
          /\ dataRequests' = dataRequests +
                               (IF d = "cached" THEN Cardinality(Resources) ELSE 0)
          /\ res' = r2
          /\ IF d = "absent"
             THEN JoinWoW(r2, accessToken)
             ELSE /\ wowCall' = "pending"
                  /\ wowBundle' = NoBundle
    /\ lastEvent' = NoEvent
    /\ UNCHANGED <<accessToken, tokenExpiry, now, credsConfigured, issued>>
    /\ UNCHANGED <<clientVars, steamVars, nftVars, poeVars, normVars, mockVars>>

\* fetchCharacterProfile(), fetchMythicPlusProfile() or fetchRaidProgress()
\* called on its own, outside fetchAllWoWData.
FetchResource(r) ==
    /\ wowCall # "pending"
    /\ pc[r] \in {"idle", "done"}
    /\ invocations < MaxInvocations
    /\ invocations' = invocations + 1
    /\ LET d == GetAccessTokenStart
           next == IF d = "cached" THEN BlizzardFetchAfterToken(accessToken)
                   ELSE IF d = "absent" THEN BlizzardFetchAfterToken(NoToken)
                   ELSE "exchange"
       IN /\ pc' = [pc EXCEPT ![r] = IF next = "exchange" THEN "token"
                                     ELSE IF next = "request" THEN "data"
                                     ELSE "done"]
          /\ tokenRequests' = tokenRequests + (IF next = "exchange" THEN 1 ELSE 0)
          /\ dataRequests' = dataRequests + (IF next = "request" THEN 1 ELSE 0)
          /\ res' = [res EXCEPT ![r] = IF next = "null"
                                       THEN ResourceResult(r, "null", FALSE)
                                       ELSE "none"]
    /\ lastEvent' = NoEvent
    /\ UNCHANGED <<accessToken, tokenExpiry, now, credsConfigured, issued>>
    /\ UNCHANGED <<wowCall, wowBundle>>
    /\ UNCHANGED <<clientVars, steamVars, nftVars, poeVars, normVars, mockVars>>

\* The token endpoint answers the exchange of resource fetch r.
TokenResponse(r, outcome, expiresIn) ==
    /\ pc[r] = "token"
    /\ ExchangeAnswered(r, outcome, expiresIn)
    /\ LET t == GetAccessTokenResult(outcome, issued + 1)
           next == BlizzardFetchAfterToken(t)
           r2 == [res EXCEPT ![r] =
                    IF next = "rejected" THEN "rejected"
                    ELSE IF next = "null" THEN ResourceResult(r, "null", FALSE)
                    ELSE "none"]
       IN /\ pc' = [pc EXCEPT ![r] = IF next = "request" THEN "data" ELSE "done"]
          /\ dataRequests' = dataRequests + (IF next = "request" THEN 1 ELSE 0)
          /\ res' = r2
          /\ IF wowCall = "pending"
             THEN JoinWoW(r2, CacheAfter(outcome, issued + 1, expiresIn).accessToken)
             ELSE UNCHANGED <<wowCall, wowBundle>>
    /\ UNCHANGED <<now, credsConfigured, invocations, tokenRequests>>
    /\ UNCHANGED <<clientVars, steamVars, nftVars, poeVars, normVars, mockVars>>

\* The API answers the data request of resource fetch r.
DataResponse(r, outcome, hasInstances) ==
    /\ pc[r] = "data"
    /\ LET r2 == [res EXCEPT ![r] =
                    ResourceResult(r, BlizzardFetchData(outcome), hasInstances)]
       IN /\ res' = r2
          /\ IF wowCall = "pending"
             THEN JoinWoW(r2, accessToken)
             ELSE UNCHANGED <<wowCall, wowBundle>>
    /\ pc' = [pc EXCEPT ![r] = "done"]
    /\ lastEvent' = [kind |-> "data", who |-> r, outcome |-> outcome, ret |-> Pending,
                     expiresIn |-> 0]
    /\ UNCHANGED <<accessToken, tokenExpiry, now, credsConfigured, issued,
                   tokenRequests, invocations, dataRequests>>
    /\ UNCHANGED <<clientVars, steamVars, nftVars, poeVars, normVars, mockVars>>

(***************************************************************************)
(* Steam adapter: fetchPlayerSummary, fetchSteamLevel, fetchOwnedGames,    *)
(* fetchRecentGames, fetchAllSteamData                                     *)
(***************************************************************************)
SteamResources == {"playerSummary", "steamLevel", "ownedGames", "recentGames"}
\* What a request meets: a 200 response, a non-success status, or fetch()
\* itself failing (no connectivity, CORS), which rejects with a TypeError.
SteamOutcomes == {"ok", "401", "403", "500", "network"}
NoSteamEvent == [who |-> "none", outcome |-> "none", rootShape |-> TRUE]
NoSteamBundle == [profile |-> "none", steamId |-> <<>>, level |-> "none",
                  ownedGames |-> "none", recentGames |-> "none",
                  isMockData |-> FALSE]

\* no key, a key
ApiKeyChoices == {"", "0123456789ABCDEF0123456789ABCDEF"}
\* steamId: '76561198000000000' of getMockPlayerSummary (nine zeros)
MockSteamId == <<7, 6, 5, 6, 1, 1, 9, 8, 0, 0, 0, 0, 0, 0, 0, 0, 0>>
\* '0000000000' (ten zeros)
PlaceholderZeros == <<0, 0, 0, 0, 0, 0, 0, 0, 0, 0>>
\* an id that holds the ten zeros
PlaceholderSteamId == <<7, 6, 5, 6, 1, 1, 9, 0, 0, 0, 0, 0, 0, 0, 0, 0, 0>>
\* no id, an id with the ten zeros, the mock summary's id, the id of an account
SteamIdChoices ==
    {<<>>, PlaceholderSteamId, MockSteamId,
     <<7, 6, 5, 6, 1, 1, 9, 7, 9, 6, 0, 2, 8, 7, 9, 3, 0>>}

\* String.prototype.includes
Includes(str, sub) ==
    \E i \in 1..(Len(str) - Len(sub) + 1) : SubSeq(str, i, i + Len(sub) - 1) = sub

\* hasValidCredentials without its test for the placeholder id.
HasValidCredentialsAnyId == API_KEY # "" /\ STEAM_ID # <<>>

\* API_KEY && API_KEY.length > 0 && STEAM_ID && !STEAM_ID.includes('0000000000')
hasValidCredentials ==
    /\ API_KEY # ""
    /\ STEAM_ID # <<>>
    /\ ~Includes(STEAM_ID, PlaceholderZeros)

\* steamId of the summary fetchPlayerSummary returned: `steamId: player.steamid`
\* of the account asked for, or the mock summary's.
PlayerSteamId(result) ==
    IF result = "mock" THEN MockSteamId
    ELSE IF result = "live" THEN STEAM_ID
    ELSE <<>>

\* The error thrown inside the try block of a resource fetch, if any:
\* fetch() rejecting, `throw new Error('Steam API error: ...')` on
\* !response.ok, `throw new Error('Player not found')`.
SteamThrown(r, outcome, playerFound) ==
    IF outcome = "network" THEN "TypeError"
    ELSE IF outcome # "ok" THEN "SteamApiError"
    ELSE IF r = "playerSummary" /\ ~playerFound THEN "PlayerNotFound"
    ELSE "none"

\* error.message.includes('CORS') || error.message.includes('NetworkError')
\*   || error.name === 'TypeError'
IsCorsOrNetworkError(err) == err = "TypeError"

\* A resource fetch on the answer to its request.  Only fetchPlayerSummary
\* tests the body of a 200 answer; the others default what is missing
\* (`data.response?.player_level || 0`, `data.response?.games || []`) and
\* return the result as live data.  fetchSteamLevel's catch
\* returns the mock level for every error; the other three return mock data
\* for a CORS/network error and rethrow every other error.
SteamResourceResult(r, outcome, playerFound) ==
    LET err == SteamThrown(r, outcome, playerFound)
    IN IF err = "none" THEN "live"
       ELSE IF r = "steamLevel" THEN "mock"
       ELSE IF IsCorsOrNetworkError(err) THEN "mock"
       ELSE "rejected"

\* Promise.all over the four resource promises: rejects with the first
\* rejection, resolves once all four are fulfilled.
PromiseAllSteam(r2) ==
    IF \E r \in SteamResources : r2[r] = "rejected" THEN "rejected"
    ELSE IF \A r \in SteamResources : r2[r] # "none" THEN "returned"
    ELSE "pending"

\* return { profile: {...playerSummary, level}, ownedGames, recentGames,
\*          isMockData: !hasValidCredentials() }
SteamBundle(r2) ==
    [profile |-> r2["playerSummary"], steamId |-> PlayerSteamId(r2["playerSummary"]),
     level |-> r2["steamLevel"],
     ownedGames |-> r2["ownedGames"], recentGames |-> r2["recentGames"],
     isMockData |-> ~hasValidCredentials]

JoinSteam(r2) ==
    /\ steamCall' = PromiseAllSteam(r2)
    /\ steamBundle' = IF PromiseAllSteam(r2) = "returned"
                      THEN SteamBundle(r2)
                      ELSE steamBundle

\* fetchAllSteamData(): without valid credentials every resource fetch returns
\* its mock dataset at once; otherwise the four requests are issued.
FetchAllSteamData ==
    /\ steamCall = "idle"
    /\ LET r2 == [r \in SteamResources |-> IF hasValidCredentials THEN "none" ELSE "mock"]
       IN /\ sres' = r2
          /\ spc' = [r \in SteamResources |->
                       IF r \notin StartedByFetchAll(SteamResources) THEN spc[r]
                       ELSE IF hasValidCredentials THEN "wait" ELSE "done"]
          /\ steamRequests' = steamRequests +
                                 (IF hasValidCredentials THEN Cardinality(SteamResources) ELSE 0)
          /\ IF hasValidCredentials
             THEN steamCall' = "pending" /\ steamBundle' = steamBundle
             ELSE JoinSteam(r2)
    /\ steamEvent' = NoSteamEvent
    /\ UNCHANGED <<API_KEY, STEAM_ID>>
    /\ UNCHANGED <<tokenVars, clientVars, wowVars, nftVars, poeVars, normVars, mockVars>>

\* The request of resource fetch r is answered; rootShape: the body of a 200
\* answer has the member the fetch reads (response.players[0],
\* response.player_level, response.games).
SteamResponse(r, outcome, rootShape) ==
    /\ spc[r] = "wait"
    /\ LET r2 == [sres EXCEPT ![r] = SteamResourceResult(r, outcome, rootShape)]
       IN /\ sres' = r2
          /\ JoinSteam(r2)
    /\ spc' = [spc EXCEPT ![r] = "done"]
    /\ steamEvent' = [who |-> r, outcome |-> outcome,
                      rootShape |-> (outcome = "ok" => rootShape)]
    /\ UNCHANGED <<API_KEY, STEAM_ID, steamRequests>>
    /\ UNCHANGED <<tokenVars, clientVars, wowVars, nftVars, poeVars, normVars, mockVars>>

\* The request of resource fetch r never gets an answer.
SteamHang(r) ==
    /\ spc[r] = "wait"
    /\ spc' = [spc EXCEPT ![r] = "hung"]
    /\ steamEvent' = NoSteamEvent
    /\ UNCHANGED <<API_KEY, STEAM_ID, sres, steamCall, steamBundle, steamRequests>>
    /\ UNCHANGED <<tokenVars, clientVars, wowVars, nftVars, poeVars, normVars, mockVars>>

(***************************************************************************)
(* NFT service: fetchNFTsForWallet, fetchAllNFTs                           *)
(***************************************************************************)
Min(a, b) == IF a <= b THEN a ELSE b
ZeroAddress == "0x0000000000000000000000000000000000000000"
\* no address at all, the zero address, an address of a wallet
AddressChoices == {"", ZeroAddress, "0x1111111111111111111111111111111111111111"}
PageOutcomes == {"ok", "http", "network"}

RECURSIVE FlattenPages(_)
\* The items of the pages of a log, concatenated in request order.
FlattenPages(pages) ==
    IF pages = <<>> THEN <<>>
    ELSE FlattenPages(SubSeq(pages, 1, Len(pages) - 1)) \o pages[Len(pages)].nfts

\* The page the upstream serves for a request, after `count` items were
\* served: the "paged" upstream holds ScenarioItems items and serves them
\* PageLimit at a time, with a continuation while items remain; the "any"
\* upstream serves a page of any size up to MaxPageSize, with or without a
\* continuation.  Item ids number the items in the order they are served.
\* The "finite" upstream holds at most MaxRequests pages: its last page has
\* no continuation.  The "nonempty" upstream serves at least one item on every
\* page.  The "empty" upstream serves empty pages with a continuation, forever.
UpstreamPages(count, cursor) ==
    LET page(n, more) ==
          [cursor |-> cursor,
           nfts |-> [i \in 1..n |-> count + i],
           continuation |-> IF more THEN Len(served) + 1 ELSE 0]
    IN CASE source = "paged" ->
              {page(Min(PageLimit, ScenarioItems - count),
                    count + PageLimit < ScenarioItems)}
         [] source = "finite" ->
              {page(n, more) : n \in 0..MaxPageSize,
                               more \in {b \in BOOLEAN : b => Len(served) + 1 < MaxRequests}}
         [] source = "nonempty" ->
              {page(n, more) : n \in 1..MaxPageSize, more \in BOOLEAN}
         [] source = "empty" -> {page(0, TRUE)}
         [] OTHER ->
              {page(n, more) : n \in 0..MaxPageSize, more \in BOOLEAN}

\* fetchAllNFTs returning allNFTs without the final slice.
SliceResultUntruncated(all, n) == all

\* return allNFTs.slice(0, maxNFTs), for maxNFTs >= 0
SliceResult(all, n) == SubSeq(all, 1, Min(n, Len(all)))

\* The loop without its `break`: only a missing continuation ends it.
LoopEndsWithoutBreak(len, n, cont) == cont = 0

\* The loop as `while (true)`: only the `break` ends it.
LoopEndsOnlyAtMax(len, n, cont) == len >= n

\* The do-while loop ends after a page: `if (allNFTs.length >= maxNFTs) break`
\* or `while (continuation)` finding no continuation.
LoopEnds(len, n, cont) == len >= n \/ cont = 0

\* The walk that returned what it had accumulated when a page request failed.
WalkAfterFailureCaught(all, n) ==
    [npc |-> "returned", nftResult |-> SubSeq(all, 1, Min(n, Len(all)))]

\* fetchAllNFTs when `await fetchNFTsForWallet(...)` throws: no try/catch, so
\* the call rejects and allNFTs is dropped.
WalkAfterFailure(all, n) == [npc |-> "rejected", nftResult |-> <<>>]

\* The request that never carries a continuation parameter.
RequestCursorNone(cont) == 0

\* The cursor a page request carries: fetchNFTsForWallet(walletAddress,
\* continuation) appends the continuation parameter `if (continuation)`.
RequestCursor(cont) == IF cont # 0 THEN cont ELSE 0

\* fetchNFTsForWallet goes on to its request: `!address || address === '0x00...'`
\* is false.
WalletConfigured(a) == a # "" /\ a # ZeroAddress

\* fetchAllNFTs(walletAddress, maxNFTs): the first page is requested with
\* the null cursor.  Without a wallet address fetchNFTsForWallet throws before
\* its fetch(), and fetchAllNFTs does not catch.
FetchAllNFTs ==
    /\ npc = "idle"
    /\ allNFTs' = <<>>
    /\ continuation' = 0
    /\ IF WalletConfigured(address)
       THEN /\ pageRequests' = pageRequests + 1
            /\ npc' = "fetching"
            /\ nftResult' = nftResult
            /\ nftEvent' = "none"
       ELSE /\ pageRequests' = pageRequests
            /\ npc' = WalkAfterFailure(allNFTs, maxNFTs).npc
            /\ nftResult' = WalkAfterFailure(allNFTs, maxNFTs).nftResult
            /\ nftEvent' = "noWallet"
    /\ UNCHANGED <<address, source, maxNFTs, served>>
    /\ UNCHANGED <<tokenVars, clientVars, wowVars, steamVars, poeVars, normVars, mockVars>>

\* The page request in flight is answered.  A failure makes
\* fetchNFTsForWallet throw, which fetchAllNFTs does not catch.
PageResponse(outcome, page) ==
    /\ npc = "fetching"
    /\ pageRequests <= MaxRequests
    /\ IF outcome = "ok"
       THEN LET all == allNFTs \o page.nfts
                ends == LoopEnds(Len(all), maxNFTs, page.continuation)
            IN /\ served' = Append(served, page)
               /\ allNFTs' = all
               /\ continuation' = page.continuation
               /\ npc' = IF ends THEN "returned" ELSE "fetching"
               /\ nftResult' = IF ends THEN SliceResult(all, maxNFTs) ELSE nftResult
               /\ pageRequests' = IF ends THEN pageRequests ELSE pageRequests + 1
       ELSE /\ npc' = WalkAfterFailure(allNFTs, maxNFTs).npc
            /\ nftResult' = WalkAfterFailure(allNFTs, maxNFTs).nftResult
            /\ UNCHANGED <<served, allNFTs, continuation, pageRequests>>
    /\ nftEvent' = outcome
    /\ UNCHANGED <<address, source, maxNFTs>>
    /\ UNCHANGED <<tokenVars, clientVars, wowVars, steamVars, poeVars, normVars, mockVars>>

(***************************************************************************)
(* Path of Exile service: fetchCharacters, fetchLeagues,                   *)
(* fetchAccountProfile, fetchAllPOE2Data                                   *)
(***************************************************************************)
POEResources == {"characters", "leagues", "account"}
POEOutcomes == {"ok", "401", "403", "500", "network"}
\* What a resource fetch returned: data is "live", "mock", or for the leagues
\* "liveNoId" (live leagues of which one has no id); "rejected" stands for a
\* promise that rejected.  The result of fetchLeagues also holds its leagues.
NoPOEResult == [data |-> "none", isMockData |-> FALSE]
NoPOEEvent == [who |-> "none", outcome |-> "none"]
NoPOEBundle == [account |-> "none", characters |-> "none", leagues |-> "none",
                currentLeague |-> "none", isMockData |-> FALSE]

\* A value of a body's leagues member: an array of leagues, or an object
\* that is no array.  A league is a record; a member it lacks is outside its
\* DOMAIN.  Ids are sequences of characters.
Array(items) == [isArray |-> TRUE, items |-> items]
NotArray == [isArray |-> FALSE, items |-> <<>>]

Settlers == <<"S", "e", "t", "t", "l", "e", "r", "s">>
Standard == <<"S", "t", "a", "n", "d", "a", "r", "d">>
Hardcore == <<"H", "a", "r", "d", "c", "o", "r", "e">>
SSF == <<"S", "S", "F">>
Dawn == <<"D", "a", "w", "n">>
Rise == <<"R", "i", "s", "e">>
SSFDawn == <<"S", "S", "F", " ", "D", "a", "w", "n">>

LeagueChoices ==
    {[id |-> Dawn, rules |-> <<"dawn">>], [id |-> Rise, rules |-> <<"rise">>],
     [id |-> Dawn], [id |-> Standard, rules |-> <<>>],
     [id |-> Hardcore, rules |-> <<"Hardcore">>],
     [id |-> SSFDawn, rules |-> <<"NoParties">>],
     [rules |-> <<"dawn">>]}
LeagueLists == UNION {[1..n -> LeagueChoices] : n \in 0..MaxLeagues}
\* The bodies a 200 answer of the league endpoint may carry.
LeaguesBodies ==
    {<<>>, [leagues |-> NotArray]} \cup {[leagues |-> Array(l)] : l \in LeagueLists}

\* The bodies the answer to the request of resource fetch r may carry, as
\* far as the fetch reads them: the leagues of a 200 answer.
POEBodies(r, outcome) ==
    IF r = "leagues" /\ outcome = "ok" THEN LeaguesBodies ELSE {<<>>}

\* getMockLeagues()
GetMockLeagues ==
    [leagues |-> Array(<<[id |-> Settlers, rules |-> <<"settlers">>],
                         [id |-> Standard, rules |-> <<>>],
                         [id |-> Hardcore, rules |-> <<"Hardcore">>]>>),
     isMockData |-> TRUE]

\* The test of getCurrentLeague's find without its rules part.
QualifiesByIdOnly(league) ==
    /\ ~Includes(league.id, Standard)
    /\ ~Includes(league.id, Hardcore)
    /\ ~Includes(league.id, SSF)

\* !league.id.includes('Standard') && !league.id.includes('Hardcore') &&
\* !league.id.includes('SSF') && league.rules?.length > 0
Qualifies(league) ==
    /\ ~Includes(league.id, Standard)
    /\ ~Includes(league.id, Hardcore)
    /\ ~Includes(league.id, SSF)
    /\ "rules" \in DOMAIN league /\ Len(league.rules) > 0

\* leagues.find(...) from index i: the index of the first league that
\* qualifies, 0 when none does, -1 when a league without id is met first
\* (league.id.includes is a TypeError).
RECURSIVE Find(_, _)
Find(items, i) ==
    IF i > Len(items) THEN 0
    ELSE IF "id" \notin DOMAIN items[i] THEN 0 - 1
    ELSE IF Qualifies(items[i]) THEN i
    ELSE Find(items, i + 1)

GetCurrentLeagueThrows(leagues) ==
    leagues.isArray /\ Find(leagues.items, 1) < 0

DefaultLeague == [name |-> "Settlers", type |-> "Challenge League"]

\* getCurrentLeague(leagues), where it does not throw
GetCurrentLeague(leagues) ==
    IF ~leagues.isArray \/ Len(leagues.items) = 0 THEN DefaultLeague
    ELSE LET challengeLeague == Find(leagues.items, 1)
         IN IF challengeLeague > 0 THEN leagues.items[challengeLeague]
            ELSE leagues.items[1]

\* data.leagues || []
BodyLeagues(body) == IF "leagues" \in DOMAIN body THEN body.leagues ELSE Array(<<>>)
HasLeagueWithoutId(leagues) ==
    \E i \in DOMAIN leagues.items : "id" \notin DOMAIN leagues.items[i]


\* fetchLeagues without its try/catch.
FetchLeaguesResultNoCatch(outcome, body) ==
    IF outcome = "ok"
    THEN [data |-> "live", isMockData |-> FALSE, leagues |-> BodyLeagues(body)]
    ELSE [data |-> "rejected", isMockData |-> FALSE, leagues |-> Array(<<>>)]

\* fetchCharacters on the answer to its request: 401 and 403 return
\* getMockCharacters(); every other failure throws and the catch returns
\* getMockCharacters(); a 200 body gives { characters, isMockData: false }.
FetchCharactersResult(outcome) ==
    IF outcome \in {"401", "403"} THEN [data |-> "mock", isMockData |-> TRUE]
    ELSE IF outcome # "ok" THEN [data |-> "mock", isMockData |-> TRUE]
    ELSE [data |-> "live", isMockData |-> FALSE]

\* fetchLeagues on the answer to its request: every failure throws and the
\* catch returns getMockLeagues(); the leagues of a 200 body are returned as
\* they are, [] for a body without leagues.
FetchLeaguesResult(outcome, body) ==
    IF outcome # "ok"
    THEN [data |-> "mock", isMockData |-> GetMockLeagues.isMockData,
          leagues |-> GetMockLeagues.leagues]
    ELSE [data |-> IF HasLeagueWithoutId(BodyLeagues(body)) THEN "liveNoId" ELSE "live",
          isMockData |-> FALSE, leagues |-> BodyLeagues(body)]

\* fetchAccountProfile on the answer to its request: the catch returns the
\* configured account name and realm with isMockData: true.
FetchAccountProfileResult(outcome) ==
    IF outcome # "ok" THEN [data |-> "mock", isMockData |-> TRUE]
    ELSE [data |-> "live", isMockData |-> FALSE]

POEResourceResult(r, outcome, body) ==
    CASE r = "characters" -> FetchCharactersResult(outcome)
      [] r = "leagues" -> FetchLeaguesResult(outcome, body)
      [] r = "account" -> FetchAccountProfileResult(outcome)

\* Promise.all over the three resource promises.
PromiseAllPOE(r2) ==
    IF \E r \in POEResources : r2[r].data = "rejected" THEN "rejected"
    ELSE IF \A r \in POEResources : r2[r].data # "none" THEN "returned"
    ELSE "pending"

\* The flag of the bundle taken from the characters alone.
AggregateIsMockDataCharactersOnly(c, l, p) == c.isMockData

\* charactersData.isMockData || leaguesData.isMockData || profileData.isMockData
AggregateIsMockData(c, l, p) == c.isMockData \/ l.isMockData \/ p.isMockData

\* return { account, characters, leagues, currentLeague, isMockData }
POEBundle(r2) ==
    [account |-> r2["account"].data,
     characters |-> r2["characters"].data,
     leagues |-> r2["leagues"].leagues,
     currentLeague |-> GetCurrentLeague(r2["leagues"].leagues),
     isMockData |-> AggregateIsMockData(r2["characters"], r2["leagues"],
                                        r2["account"])]

\* The continuation of fetchAllPOE2Data once the resource results are r2.
JoinPOE(r2) ==
    LET all == PromiseAllPOE(r2)
        throws == all = "returned" /\ GetCurrentLeagueThrows(r2["leagues"].leagues)
    IN /\ poeCall' = IF throws THEN "rejected" ELSE all
       /\ poeBundle' = IF all = "returned" /\ ~throws THEN POEBundle(r2)
                       ELSE poeBundle

\* fetchAllPOE2Data(): the three requests are issued; no credentials are
\* tested.
FetchAllPOE2Data ==
    /\ poeCall = "idle"
    /\ ppc' = [r \in POEResources |->
                 IF r \in StartedByFetchAll(POEResources) THEN "wait" ELSE ppc[r]]
    /\ pres' = [r \in POEResources |-> NoPOEResult]
    /\ poeCall' = "pending"
    /\ poeEvent' = NoPOEEvent
    /\ UNCHANGED poeBundle
    /\ UNCHANGED <<tokenVars, clientVars, wowVars, steamVars, nftVars, normVars, mockVars>>

\* The request of resource fetch r is answered; body: what a 200 answer of
\* the league endpoint carries.
POEResponse(r, outcome, body) ==
    /\ ppc[r] = "wait"
    /\ LET r2 == [pres EXCEPT ![r] = POEResourceResult(r, outcome, body)]
       IN /\ pres' = r2
          /\ JoinPOE(r2)
    /\ ppc' = [ppc EXCEPT ![r] = "done"]
    /\ poeEvent' = [who |-> r, outcome |-> outcome]
    /\ UNCHANGED <<tokenVars, clientVars, wowVars, steamVars, nftVars, normVars, mockVars>>

(***************************************************************************)
(* Live path of fetchOwnedGames: the games of a 200 response               *)
(***************************************************************************)
\* playtime_forever values of the upstream games
MinutesChoices == (0..MaxMinutes) \cup {ScenarioMinutes}
\* The games of a GetOwnedGames response: game i of the list has appid i.
UpstreamGameLists ==
    UNION {[1..n -> MinutesChoices] : n \in 0..MaxGames}
UpstreamGames(minutes) ==
    [i \in 1..Len(minutes) |-> [appid |-> i, playtime_forever |-> minutes[i]]]

\* Rounding towards zero instead of Math.round.
MathTrunc(num, den) == num \div den

\* Math.round(num / den) for num >= 0, den > 0: the nearest integer, a half
\* rounded up.
MathRound(num, den) == (2 * num + den) \div (2 * den)

\* Math.round((game.playtime_forever / 60) * 10), the hours in tenths: the
\* model keeps playtimeHours as this integer, the code divides it by 10.
PlaytimeTenths(m) == MathRound(m * 10, 60)

\* games.map(game => ({ appId, ..., playtimeMinutes, playtimeHours, ... }))
MapGame(game) ==
    [appId |-> game.appid,
     playtimeMinutes |-> game.playtime_forever,
     playtimeHours |-> PlaytimeTenths(game.playtime_forever)]

\* The comparator with its operands exchanged.
CompareGamesAscending(a, b) == a.playtimeMinutes - b.playtimeMinutes

\* (a, b) => b.playtimeMinutes - a.playtimeMinutes
CompareGames(a, b) == b.playtimeMinutes - a.playtimeMinutes

\* Array.prototype.sort is stable: g goes before the first game that the
\* comparator puts after it.
InsertGame(sorted, g) ==
    LET after == {i \in 1..Len(sorted) : CompareGames(sorted[i], g) > 0}
        k == IF after = {} THEN Len(sorted) + 1
             ELSE CHOOSE i \in after : \A j \in after : i <= j
    IN SubSeq(sorted, 1, k - 1) \o <<g>> \o SubSeq(sorted, k, Len(sorted))

RECURSIVE SortGames(_)
\* games.sort(comparator)
SortGames(games) ==
    IF games = <<>> THEN <<>>
    ELSE InsertGame(SortGames(SubSeq(games, 1, Len(games) - 1)), games[Len(games)])

\* fetchOwnedGames on a 200 response with these games.
FetchOwnedGamesLive ==
    /\ normFn = "fetchOwnedGames"
    /\ ~normDone
    /\ normDone' = TRUE
    /\ normOutput' = SortGames([i \in 1..Len(normInput) |-> MapGame(normInput[i])])
    /\ UNCHANGED <<normFn, normInput>>
    /\ UNCHANGED <<tokenVars, clientVars, wowVars, steamVars, nftVars, poeVars, mockVars>>

(***************************************************************************)
(* Live paths of fetchPlayerSummary, fetchSteamLevel,                      *)
(* fetchCharacterProfile and fetchMythicPlusProfile.  A body is a record;  *)
(* a member the body lacks is outside its DOMAIN, and a result property    *)
(* that is undefined is outside the DOMAIN of the result.                  *)
(***************************************************************************)
Null == "null"
Restrict(obj, members) == [m \in members |-> obj[m]]

\* obj.member || default for a number: undefined and 0 are falsy
OrNumber(obj, member, default) ==
    IF member \in DOMAIN obj /\ obj[member] # 0 THEN obj[member] ELSE default

\* obj.member?.name || default for a name: undefined and '' are falsy
OrName(obj, member, default) ==
    IF member \in DOMAIN obj /\ obj[member] # "" THEN obj[member] ELSE default

\* The player of a GetPlayerSummaries response; realname, loccountrycode,
\* lastlogoff and timecreated are left out of private profiles.
FullPlayer ==
    [steamid |-> <<7, 6, 5, 6, 1, 1, 9, 7, 9, 6, 0, 2, 8, 7, 9, 3, 0>>,
     personaname |-> "Robin", avatarfull |-> "https://avatars/robin_full.jpg",
     profileurl |-> "https://steamcommunity.com/id/robin", personastate |-> 1,
     lastlogoff |-> 1700000000, timecreated |-> 1100000000,
     realname |-> "Robin W.", loccountrycode |-> "US"]
OptionalPlayerMembers == {"realname", "loccountrycode", "lastlogoff", "timecreated"}
PlayerBodies ==
    {Restrict(FullPlayer, (DOMAIN FullPlayer \ OptionalPlayerMembers) \cup present) :
        present \in SUBSET OptionalPlayerMembers}

\* The properties of fetchPlayerSummary's result and the member each copies.
PlayerSummaryProperties ==
    {<<"steamId", "steamid">>, <<"personaName", "personaname">>,
     <<"avatarUrl", "avatarfull">>, <<"profileUrl", "profileurl">>,
     <<"personaState", "personastate">>, <<"lastLogoff", "lastlogoff">>,
     <<"timeCreated", "timecreated">>, <<"realName", "realname">>,
     <<"countryCode", "loccountrycode">>}

\* return { steamId: player.steamid, ..., countryCode: player.loccountrycode }
NormalizePlayerSummary(player) ==
    LET defined == {p \in PlayerSummaryProperties : p[2] \in DOMAIN player}
        member(property) == (CHOOSE p \in defined : p[1] = property)[2]
    IN [property \in {p[1] : p \in defined} |-> player[member(property)]]

\* getMockPlayerSummary() called at time t (epoch milliseconds)
GetMockPlayerSummary(t) ==
    [steamId |-> MockSteamId, personaName |-> "GamerTag",
     avatarUrl |-> "https://avatars.steamstatic.com/fef49e7fa7e1997310d705b2a6158ff8dc1cdfeb_full.jpg",
     profileUrl |-> "https://steamcommunity.com/profiles/76561198000000000",
     personaState |-> 1, lastLogoff |-> (t \div 1000) - 3600,
     timeCreated |-> 1293753600, realName |-> Null, countryCode |-> "US"]

\* The response member of a GetSteamLevel body.
SteamLevelBodies == {<<>>} \cup {[player_level |-> l] : l \in {0, 17}}
\* return data.response?.player_level || 0
NormalizeSteamLevel(response) == OrNumber(response, "player_level", 0)

\* The body of a character profile response; character_class and guild
\* stand for their name member.
CharacterBodies ==
    LET full(l, i) == [level |-> l, equipped_item_level |-> i,
                       character_class |-> "Mage", guild |-> "Night Shift"]
    IN {Restrict(full(l, i), present) :
           l \in {70}, i \in {0, 610},
           present \in SUBSET {"level", "equipped_item_level", "character_class",
                               "guild"}}

\* The profile that takes 0 for a missing level and null for a missing class.
NormalizeCharacterProfileNeutral(data) ==
    [class |-> OrName(data, "character_class", Null),
     level |-> OrNumber(data, "level", 0),
     itemLevel |-> OrNumber(data, "equipped_item_level", 0),
     guild |-> OrName(data, "guild", Null)]

\* class: data.character_class?.name || 'Unknown', level: data.level || 80,
\* itemLevel: data.equipped_item_level || 0, guild: data.guild?.name || null
NormalizeCharacterProfile(data) ==
    [class |-> OrName(data, "character_class", "Unknown"),
     level |-> OrNumber(data, "level", 80),
     itemLevel |-> OrNumber(data, "equipped_item_level", 0),
     guild |-> OrName(data, "guild", Null)]

\* The body of a mythic keystone profile response: mythic_rating with its
\* rating and color, where present.
White == [r |-> 255, g |-> 255, b |-> 255]
MythicBodies ==
    {<<>>, [mythic_rating |-> [rating |-> 2150]],
     [mythic_rating |-> [rating |-> 2150, color |-> [r |-> 163, g |-> 53, b |-> 238]]]}

\* rating: data.mythic_rating?.rating || 0,
\* ratingColor: data.mythic_rating?.color || { r: 255, g: 255, b: 255 }
NormalizeMythicPlus(data) ==
    LET mythic_rating == IF "mythic_rating" \in DOMAIN data
                         THEN data.mythic_rating ELSE <<>>
    IN [rating |-> OrNumber(mythic_rating, "rating", 0),
        ratingColor |-> IF "color" \in DOMAIN mythic_rating
                        THEN mythic_rating.color ELSE White]

\* A resource fetch maps the 200 body it received.
FetchLive(fn, result) ==
    /\ normFn = fn
    /\ ~normDone
    /\ normDone' = TRUE
    /\ normOutput' = result
    /\ UNCHANGED <<normFn, normInput>>
    /\ UNCHANGED <<tokenVars, clientVars, wowVars, steamVars, nftVars, poeVars, mockVars>>

FetchPlayerSummaryLive ==
    FetchLive("fetchPlayerSummary", NormalizePlayerSummary(normInput))
FetchSteamLevelLive ==
    FetchLive("fetchSteamLevel", NormalizeSteamLevel(normInput))
FetchCharacterProfileLive ==
    FetchLive("fetchCharacterProfile", NormalizeCharacterProfile(normInput))
FetchMythicPlusProfileLive ==
    FetchLive("fetchMythicPlusProfile", NormalizeMythicPlus(normInput))

(***************************************************************************)
(* The mock data functions, called at the time the clock shows.            *)
(***************************************************************************)
MaxMockCalls == 2

\* getMockCharacterProfile(): the sample character and lastLogin: Date.now()
GetMockCharacterProfileAt(t) ==
    [property \in DOMAIN GetMockCharacterProfile \cup {"lastLogin"} |->
        IF property = "lastLogin" THEN t ELSE GetMockCharacterProfile[property]]

\* getMockSteamLevel = () => 42
GetMockSteamLevel == 42

\* getMockCharacters(): the first two sample characters
GetMockCharacters(t) ==
    [characters |->
        <<[name |-> "ShadowBlade", level |-> 92, lastActive |-> t - 3600000],
          [name |-> "FrostWitch", level |-> 88, lastActive |-> t - 86400000]>>,
     isMockData |-> TRUE]

CallMock(fn, dataset) ==
    /\ Len(mockReturned) < MaxMockCalls
    /\ mockReturned' = Append(mockReturned, [fn |-> fn, dataset |-> dataset])
    /\ UNCHANGED <<tokenVars, clientVars, wowVars, steamVars, nftVars, poeVars, normVars>>

GetMockPlayerSummaryCall == CallMock("getMockPlayerSummary", GetMockPlayerSummary(now))
GetMockSteamLevelCall == CallMock("getMockSteamLevel", GetMockSteamLevel)
GetMockCharacterProfileCall ==
    CallMock("getMockCharacterProfile", GetMockCharacterProfileAt(now))
GetMockCharactersCall == CallMock("getMockCharacters", GetMockCharacters(now))

(***************************************************************************)
(* Initial states and specifications                                       *)
(***************************************************************************)
InitMockIdle == mockReturned = <<>>

InitNormIdle ==
    /\ normFn = "none"
    /\ normInput = <<>>
    /\ normDone = FALSE
    /\ normOutput = <<>>

InitPOEIdle ==
    /\ ppc = [r \in POEResources |-> "idle"]
    /\ pres = [r \in POEResources |-> NoPOEResult]
    /\ poeCall = "idle"
    /\ poeBundle = NoPOEBundle
    /\ poeEvent = NoPOEEvent

InitToken ==
    /\ accessToken = NoToken
    /\ tokenExpiry = 0
    /\ now = StartNow
    /\ issued = 0
    /\ tokenRequests = 0
    /\ lastEvent = NoEvent
    /\ cpc = [c \in Clients |-> "idle"]
    /\ calls = [c \in Clients |-> <<>>]
    /\ pc = [r \in Resources |-> "idle"]
    /\ res = [r \in Resources |-> "none"]
    /\ wowCall = "idle"
    /\ wowBundle = NoBundle
    /\ invocations = 0
    /\ dataRequests = 0

InitSteamIdle ==
    /\ spc = [r \in SteamResources |-> "idle"]
    /\ sres = [r \in SteamResources |-> "none"]
    /\ steamCall = "idle"
    /\ steamBundle = NoSteamBundle
    /\ steamRequests = 0
    /\ steamEvent = NoSteamEvent

InitNFTIdle ==
    /\ npc = "idle"
    /\ pageRequests = 0
    /\ allNFTs = <<>>
    /\ continuation = 0
    /\ served = <<>>
    /\ nftResult = <<>>
    /\ nftEvent = "none"

Init ==
    /\ credsConfigured \in BOOLEAN
    /\ API_KEY = "" /\ STEAM_ID = <<>>
    /\ address = "" /\ source = "any" /\ maxNFTs = 0
    /\ InitToken /\ InitSteamIdle /\ InitNFTIdle /\ InitPOEIdle /\ InitNormIdle /\ InitMockIdle

Next ==
    \/ \E c \in Clients : GetAccessTokenCall(c)
    \/ \E c \in Clients, o \in ExchangeOutcomes, e \in ExpiresInChoices :
          ClientTokenResponse(c, o, e)
    \/ Tick

Spec == Init /\ [][Next]_vars

NextWoW ==
    \/ FetchAllWoWData
    \/ \E r \in Resources, o \in ExchangeOutcomes, e \in ExpiresInChoices :
          TokenResponse(r, o, e)
    \/ \E r \in Resources, o \in DataOutcomes, h \in BOOLEAN : DataResponse(r, o, h)
    \/ Tick

SpecWoW == Init /\ [][NextWoW]_vars

\* The resource fetches called on their own.
NextFetch ==
    \/ \E r \in Resources : FetchResource(r)
    \/ \E r \in Resources, o \in ExchangeOutcomes, e \in ExpiresInChoices :
          TokenResponse(r, o, e)
    \/ \E r \in Resources, o \in DataOutcomes, h \in BOOLEAN : DataResponse(r, o, h)
    \/ Tick

SpecFetch == Init /\ [][NextFetch]_vars

\* Every function of blizzard.js that asks for a token, without credentials.
InitNoCreds == Init /\ ~credsConfigured

NextNoCreds ==
    \/ \E c \in Clients : GetAccessTokenCall(c)
    \/ \E r \in Resources : FetchResource(r)
    \/ FetchAllWoWData
    \/ Tick

SpecNoCreds == InitNoCreds /\ [][NextNoCreds]_vars

InitSteam ==
    /\ credsConfigured = FALSE
    /\ address = "" /\ source = "any" /\ maxNFTs = 0
    /\ API_KEY \in ApiKeyChoices /\ STEAM_ID \in SteamIdChoices
    /\ InitToken /\ InitSteamIdle /\ InitNFTIdle /\ InitPOEIdle /\ InitNormIdle /\ InitMockIdle

NextSteam ==
    \/ FetchAllSteamData
    \/ \E r \in SteamResources, o \in SteamOutcomes, f \in BOOLEAN :
          SteamResponse(r, o, f)
    \/ \E r \in SteamResources : SteamHang(r)

SpecSteam == InitSteam /\ [][NextSteam]_vars

\* Every request that does not hang is eventually answered.
FairSpecSteam ==
    /\ SpecSteam
    /\ WF_vars(FetchAllSteamData)
    /\ \A r \in SteamResources :
          WF_vars(\E o \in SteamOutcomes, f \in BOOLEAN : SteamResponse(r, o, f))

InitNFT ==
    /\ credsConfigured = FALSE
    /\ API_KEY = "" /\ STEAM_ID = <<>>
    /\ \/ source \in {"any", "finite", "nonempty", "empty"}
          /\ maxNFTs \in 0..MaxMaxNFTs
       \/ source = "paged" /\ maxNFTs = DefaultMaxNFTs
    /\ address \in AddressChoices
    /\ InitToken /\ InitSteamIdle /\ InitNFTIdle /\ InitPOEIdle /\ InitNormIdle /\ InitMockIdle

NextNFT ==
    \/ FetchAllNFTs
    \/ \E o \in PageOutcomes :
          \E page \in UpstreamPages(Len(FlattenPages(served)),
                                    RequestCursor(continuation)) :
              PageResponse(o, page)

SpecNFT == InitNFT /\ [][NextNFT]_vars

InitOwnedGames ==
    /\ credsConfigured = FALSE
    /\ API_KEY = "" /\ STEAM_ID = <<>>
    /\ address = "" /\ source = "any" /\ maxNFTs = 0
    /\ InitToken /\ InitSteamIdle /\ InitNFTIdle /\ InitPOEIdle /\ InitMockIdle
    /\ normFn = "fetchOwnedGames"
    /\ \E minutes \in UpstreamGameLists : normInput = UpstreamGames(minutes)
    /\ normDone = FALSE
    /\ normOutput = <<>>

NextOwnedGames == FetchOwnedGamesLive

\* One resource fetch with the body of its 200 response.
InitLive ==
    /\ credsConfigured = FALSE
    /\ API_KEY = "" /\ STEAM_ID = <<>>
    /\ address = "" /\ source = "any" /\ maxNFTs = 0
    /\ InitToken /\ InitSteamIdle /\ InitNFTIdle /\ InitPOEIdle /\ InitMockIdle
    /\ \/ /\ normFn = "fetchOwnedGames"
          /\ \E minutes \in UpstreamGameLists : normInput = UpstreamGames(minutes)
       \/ normFn = "fetchPlayerSummary" /\ normInput \in PlayerBodies
       \/ normFn = "fetchSteamLevel" /\ normInput \in SteamLevelBodies
       \/ normFn = "fetchCharacterProfile" /\ normInput \in CharacterBodies
       \/ normFn = "fetchMythicPlusProfile" /\ normInput \in MythicBodies
    /\ normDone = FALSE
    /\ normOutput = <<>>

NextLive ==
    \/ FetchOwnedGamesLive
    \/ FetchPlayerSummaryLive
    \/ FetchSteamLevelLive
    \/ FetchCharacterProfileLive
    \/ FetchMythicPlusProfileLive

SpecLive == InitLive /\ [][NextLive]_vars

\* The mock data functions called while time passes.
InitMock ==
    /\ credsConfigured = FALSE
    /\ API_KEY = "" /\ STEAM_ID = <<>>
    /\ address = "" /\ source = "any" /\ maxNFTs = 0
    /\ InitToken /\ InitSteamIdle /\ InitNFTIdle /\ InitPOEIdle /\ InitNormIdle
    /\ InitMockIdle

NextMock ==
    \/ Tick
    \/ GetMockPlayerSummaryCall
    \/ GetMockSteamLevelCall
    \/ GetMockCharacterProfileCall
    \/ GetMockCharactersCall

SpecMock == InitMock /\ [][NextMock]_vars

SpecOwnedGames == InitOwnedGames /\ [][NextOwnedGames]_vars

NextPOE ==
    \/ FetchAllPOE2Data
    \/ \E r \in POEResources, o \in POEOutcomes : \E b \in POEBodies(r, o) :
          POEResponse(r, o, b)

\* The Path of Exile service reads no credentials.
InitPOE == Init /\ ~credsConfigured

SpecPOE == InitPOE /\ [][NextPOE]_vars

\* One of the two fetchAll functions of blizzard.js is in use.
NextAdapters ==
    \/ poeCall = "idle" /\ FetchAllWoWData
    \/ \E r \in Resources, o \in ExchangeOutcomes, e \in ExpiresInChoices :
          TokenResponse(r, o, e)
    \/ \E r \in Resources, o \in DataOutcomes, h \in BOOLEAN : DataResponse(r, o, h)
    \/ poeCall = "idle" /\ Tick
    \/ invocations = 0 /\ FetchAllPOE2Data
    \/ \E r \in POEResources, o \in POEOutcomes : \E b \in POEBodies(r, o) :
          POEResponse(r, o, b)

\* One of the three adapters' fetchAll, the other two left alone.
InitFetchAll == Init \/ InitSteam

NextFetchAll ==
    \/ poeCall = "idle" /\ steamCall = "idle" /\ FetchAllWoWData
    \/ \E r \in Resources, o \in ExchangeOutcomes, e \in ExpiresInChoices :
          TokenResponse(r, o, e)
    \/ \E r \in Resources, o \in DataOutcomes, h \in BOOLEAN : DataResponse(r, o, h)
    \/ poeCall = "idle" /\ steamCall = "idle" /\ invocations > 0 /\ Tick
    \/ invocations = 0 /\ steamCall = "idle" /\ FetchAllPOE2Data
    \/ \E r \in POEResources, o \in POEOutcomes : \E b \in POEBodies(r, o) :
          POEResponse(r, o, b)
    \/ invocations = 0 /\ poeCall = "idle" /\ FetchAllSteamData
    \/ \E r \in SteamResources, o \in SteamOutcomes, f \in BOOLEAN :
          SteamResponse(r, o, f)
    \/ \E r \in SteamResources : SteamHang(r)

SpecFetchAll == InitFetchAll /\ [][NextFetchAll]_vars

SpecAdapters == Init /\ [][NextAdapters]_vars

\* Every page request is eventually answered.
FairSpecNFT ==
    /\ SpecNFT
    /\ WF_vars(FetchAllNFTs)
    /\ WF_vars(\E o \in PageOutcomes :
                 \E page \in UpstreamPages(Len(FlattenPages(served)),
                                           RequestCursor(continuation)) :
                     PageResponse(o, page))

(***************************************************************************)
(* Claims about the Token Manager and the WoW adapter                      *)
(***************************************************************************)
InFlightExchanges == {r \in Resources : pc[r] = "token"}
FailedExchangeJustNow ==
    lastEvent.kind = "token" /\ lastEvent.outcome \in ExchangeFailures

\* C1 (as claimed; SpecWoW): concurrent getAccessToken callers on a cold cache
\* share one exchange: at most one POST /oauth/token is in flight at any time,
\* and the first fetchAllWoWData, which starts on a cold cache, causes at most
\* one token request.
C1_SingleFlight ==
    /\ Cardinality(InFlightExchanges) <= 1
    /\ invocations = 1 => tokenRequests <= 1

\* C2 (Spec): for two consecutive getAccessToken calls of a client, when the
\* first returned a token and the clock at the second call is before the cached
\* expiry, the second call returns the cached token and issues no request, so
\* the two calls issue at most the one request of the first.
C2_SecondCallServedFromCache ==
    \A c \in Clients : \A i \in 1..(Len(calls[c]) - 1) :
        LET first == calls[c][i]
            second == calls[c][i + 1]
        IN (first.ret > NoToken /\ second.before) =>
              /\ ~second.net
              /\ second.ret = second.cached
              /\ second.ret > NoToken

\* C2 witness: a client whose first call performed the exchange and whose
\* second call, before the expiry, was served from the cache: one request.
C2_Witness ==
    \E c \in Clients :
        /\ Len(calls[c]) = 2
        /\ calls[c][1].net /\ calls[c][1].ret > NoToken
        /\ calls[c][2].before /\ ~calls[c][2].net
        /\ tokenRequests = 1

\* C5 (SpecWoW): a failed token exchange makes getAccessToken return null; it
\* never rejects, blizzardFetch and the resource fetch do not reject (the
\* resource is the fallback dataset), and fetchAllWoWData does not reject.
C5_ExchangeFailureYieldsAbsent ==
    /\ wowCall # "rejected"
    /\ \A r \in Resources : res[r] # "rejected"
    /\ FailedExchangeJustNow =>
          /\ lastEvent.ret = NoToken
          /\ pc[lastEvent.who] = "done"
          /\ res[lastEvent.who] = "mock"

\* C5 witness: an exchange has just failed with a network error.
C5_Witness ==
    /\ FailedExchangeJustNow
    /\ lastEvent.outcome = "network"
    /\ res[lastEvent.who] = "mock"

\* C6 (as claimed, in the case it names; Spec): right after a failed exchange
\* a cache without a valid token holds no token at all, also when a token
\* obtained earlier had expired before the failed exchange.
C6_CacheEmptyAfterFailedExchange ==
    (FailedExchangeJustNow /\ ~(now < tokenExpiry)) => accessToken = NoToken

\* C7 (as claimed; SpecWoW): the bundle fetchAllWoWData returns has
\* isMockData = true whenever one of its three resources is fallback data.
C7_WoWProvenanceAccurate ==
    wowCall = "returned" =>
        ((\E r \in Resources : wowBundle[r] = "mock") => wowBundle.isMockData)

\* C12 (SpecNoCreds): without the Blizzard client id and secret no request is
\* ever issued, neither a token exchange nor a data request: getAccessToken
\* returns null, every resource fetch returns its mock dataset at once, and
\* fetchAllWoWData returns three mock datasets with isMockData = true.
C12_NoCredentialsNoRequests ==
    ~credsConfigured =>
        /\ tokenRequests = 0 /\ dataRequests = 0
        /\ \A c \in Clients :
              /\ cpc[c] = "idle"
              /\ \A i \in 1..Len(calls[c]) :
                    calls[c][i].ret = NoToken /\ ~calls[c][i].net
        /\ \A r \in Resources :
              /\ pc[r] \in {"idle", "done"}
              /\ pc[r] = "done" => res[r] = "mock"
        /\ wowCall \in {"idle", "returned"}
        /\ wowCall = "returned" =>
              /\ \A r \in Resources : wowBundle[r] = "mock"
              /\ wowBundle.isMockData

\* C12 witness: without credentials a client has called getAccessToken, and
\* fetchAllWoWData and a resource fetch have returned.
C12_Witness ==
    /\ ~credsConfigured
    /\ \E c \in Clients : Len(calls[c]) > 0
    /\ invocations = 2
    /\ wowCall = "returned" /\ wowBundle.isMockData
    /\ \A r \in Resources : res[r] = "mock"
    /\ tokenRequests = 0 /\ dataRequests = 0

\* The only call so far is a fetchCharacterProfile that has returned, and
\* the token endpoint has issued no token: its exchange failed.
ProfileFetchedAfterFailedExchange ==
    /\ credsConfigured
    /\ invocations = 1
    /\ pc["profile"] = "done"
    /\ issued = 0

\* C16 (SpecFetch): with credentials and an empty cache, when the token
\* exchange of a fetchCharacterProfile fails, getAccessToken returns null and
\* fetchCharacterProfile returns the mock profile (class 'Death Knight') after
\* exactly one token request and no data request; no further token request is
\* issued before the next call.
C16_FailedExchangeScenario ==
    ProfileFetchedAfterFailedExchange =>
        /\ tokenRequests = 1
        /\ dataRequests = 0
        /\ accessToken = NoToken
        /\ res["profile"] = "mock"
        /\ CharacterProfileClass(res["profile"], "Warrior") = "Death Knight"
        /\ lastEvent.kind = "token" => lastEvent.ret = NoToken

\* C16 witness: the token endpoint has just answered the exchange of
\* fetchCharacterProfile with a non-success status.
C16_Witness ==
    /\ ProfileFetchedAfterFailedExchange
    /\ lastEvent.kind = "token"
    /\ lastEvent.who = "profile"
    /\ lastEvent.outcome = "http"

\* C17 (Spec): a successful exchange at time t with expires_in E stores the
\* token with expiry t + (E - 300) seconds, so that E <= 300 leaves a token
\* that is never valid; a getAccessToken call that finds a token in the cache
\* returns it without a request when the clock is before the stored expiry,
\* and performs a new exchange otherwise.
C17_ExpiryAndReuse ==
    /\ (lastEvent.kind = "token" /\ lastEvent.outcome = "ok") =>
          /\ accessToken = lastEvent.ret
          /\ tokenExpiry = now + (lastEvent.expiresIn - 300) * 1000
          /\ lastEvent.expiresIn <= 300 => ~(now < tokenExpiry)
    /\ \A c \in Clients : \A i \in 1..Len(calls[c]) :
          LET call == calls[c][i]
          IN call.cached # NoToken =>
                /\ call.before => (~call.net /\ call.ret = call.cached)
                /\ ~call.before => call.net

\* C17 witness: a client's second call found the cached token expired and
\* its new exchange has just been answered with a token.
C17_Witness ==
    /\ lastEvent.kind = "token" /\ lastEvent.outcome = "ok"
    /\ \E c \in Clients :
          /\ lastEvent.who = c
          /\ Len(calls[c]) = 2
          /\ calls[c][2].cached # NoToken
          /\ ~calls[c][2].before
          /\ calls[c][2].net
          /\ calls[c][2].ret = accessToken

\* C18 (as claimed; SpecWoW): in fetchAllWoWData a data request that fails
\* makes its resource the mock dataset, and a data request that succeeds makes
\* its resource the normalized live data.
C18_OnlyFailedRequestsFallBack ==
    lastEvent.kind = "data" =>
        res[lastEvent.who] = (IF lastEvent.outcome = "ok" THEN "live" ELSE "mock")

(***************************************************************************)
(* Claims about the Steam adapter                                          *)
(***************************************************************************)
\* C3 (as claimed; SpecSteam): with credentials configured, an HTTP 401 or 403
\* answer makes the resource fetch return its fallback dataset; it does not
\* reject, and fetchAllSteamData does not reject.
C3_SteamAuthFailureFallsBack ==
    steamEvent.outcome \in {"401", "403"} =>
        /\ sres[steamEvent.who] = "mock"
        /\ steamCall # "rejected"

\* C4 (as claimed; FairSpecSteam): a fetchAllSteamData that has started is
\* never left pending forever, also when one of its requests never resolves.
C4_FetchAllCompletesDespiteHang ==
    (steamCall = "pending") ~> (steamCall # "pending")

\* C8 (as claimed; SpecSteam): the bundle fetchAllSteamData returns has
\* isMockData = true whenever profile, level, ownedGames or recentGames is
\* fallback data.
C8_SteamProvenanceAccurate ==
    steamCall = "returned" =>
        ((\/ steamBundle.profile = "mock"
          \/ steamBundle.level = "mock"
          \/ steamBundle.ownedGames = "mock"
          \/ steamBundle.recentGames = "mock") => steamBundle.isMockData)

\* C13 (SpecSteam): without an API key, or with a Steam id that is missing or
\* holds the placeholder '0000000000', no request is ever issued: the four
\* resource fetches return their mock datasets at once and fetchAllSteamData
\* returns them with isMockData = true and profile.steamId = '76561198000000000'.
C13_NoSteamCredentialsNoRequests ==
    (API_KEY = "" \/ STEAM_ID = <<>> \/ Includes(STEAM_ID, PlaceholderZeros)) =>
        /\ steamRequests = 0
        /\ \A r \in SteamResources : spc[r] \in {"idle", "done"}
        /\ steamCall \in {"idle", "returned"}
        /\ steamCall = "returned" =>
              /\ \A r \in SteamResources : sres[r] = "mock"
              /\ steamBundle.profile = "mock"
              /\ steamBundle.level = "mock"
              /\ steamBundle.ownedGames = "mock"
              /\ steamBundle.recentGames = "mock"
              /\ steamBundle.isMockData
              /\ steamBundle.steamId =
                    <<7, 6, 5, 6, 1, 1, 9, 8, 0, 0, 0, 0, 0, 0, 0, 0, 0>>

\* C13 witness: fetchAllSteamData has returned with an API key configured and
\* a Steam id that holds the placeholder zeros.
C13_Witness ==
    /\ API_KEY # ""
    /\ STEAM_ID = PlaceholderSteamId
    /\ steamCall = "returned"
    /\ steamBundle.isMockData
    /\ steamRequests = 0

\* C15 (as claimed; SpecSteam): a 200 answer whose body lacks the member the
\* resource fetch reads is surfaced as an error, never turned into a result.
C15_MalformedBodyIsSurfaced ==
    (steamEvent.outcome = "ok" /\ ~steamEvent.rootShape) =>
        sres[steamEvent.who] = "rejected"

(***************************************************************************)
(* Claims about the Path of Exile service                                  *)
(***************************************************************************)
\* C19 (SpecAdapters): whatever the requests meet (a 200 answer with a
\* well-formed body, a non-success status, a network error), no resource fetch
\* of the WoW adapter or of the Path of Exile service rejects, fetchAllWoWData
\* and fetchAllPOE2Data do not reject, and each returns its bundle once its
\* three resource fetches have returned.
C19_FetchAllNeverRejects ==
    /\ wowCall # "rejected"
    /\ \A r \in Resources : res[r] # "rejected"
    /\ (wowCall # "idle" /\ \A r \in Resources : pc[r] = "done") =>
          /\ wowCall = "returned"
          /\ \A r \in Resources : wowBundle[r] \in {"live", "mock"}
    /\ \A r \in POEResources : pres[r].data # "rejected"
    /\ pres["leagues"].data # "liveNoId" =>
          /\ poeCall # "rejected"
          /\ (\A r \in POEResources : ppc[r] = "done") =>
                /\ poeCall = "returned"
                /\ poeBundle.account \in {"live", "mock"}
                /\ poeBundle.characters \in {"live", "mock"}
                /\ poeBundle.leagues = pres["leagues"].leagues

\* C19 witness: fetchAllPOE2Data has returned after a network error, a
\* non-success status and a 200 answer.
C19_Witness ==
    /\ poeCall = "returned"
    /\ poeEvent.outcome = "network"
    /\ \E r \in POEResources : pres[r].data = "live"
    /\ \E r \in POEResources : r # poeEvent.who /\ pres[r].data = "mock"

\* C20 (SpecPOE): each of fetchCharacters, fetchLeagues and fetchAccountProfile
\* returns isMockData = true exactly when it returns its fallback data, and
\* the bundle of fetchAllPOE2Data has isMockData = true exactly when one of the
\* three has.
C20_AggregateFlagIsOr ==
    /\ \A r \in POEResources :
          ppc[r] = "done" => (pres[r].isMockData <=> pres[r].data = "mock")
    /\ poeCall = "returned" =>
          (poeBundle.isMockData <=> \E r \in POEResources : pres[r].isMockData)

\* C20 witness: fetchAllPOE2Data has returned live characters and leagues and
\* the fallback account, with isMockData = true.
C20_Witness ==
    /\ poeCall = "returned"
    /\ ~pres["characters"].isMockData
    /\ ~pres["leagues"].isMockData
    /\ pres["account"].isMockData
    /\ poeBundle.isMockData

(***************************************************************************)
(* Claims about the NFT pagination walker                                  *)
(***************************************************************************)
ItemsFetched == FlattenPages(served)
\* After the first j pages the walker has to stop.
StopsAfter(j) ==
    \/ Len(FlattenPages(SubSeq(served, 1, j))) >= maxNFTs
    \/ served[j].continuation = 0

\* C9 (SpecNFT): fetchAllNFTs returns at most maxNFTs items, and what it
\* returns is the first min(maxNFTs, items fetched) items of the fetched pages
\* concatenated in request order.
C9_ResultIsPrefixOfFetched ==
    npc = "returned" =>
        /\ Len(nftResult) <= maxNFTs
        /\ Len(nftResult) = Min(maxNFTs, Len(ItemsFetched))
        /\ \A i \in 1..Len(nftResult) : nftResult[i] = ItemsFetched[i]

\* C9 witness: a result that cuts the last of several pages short.
C9_Witness ==
    /\ npc = "returned"
    /\ Len(served) >= 2
    /\ 0 < maxNFTs /\ maxNFTs < Len(ItemsFetched)
    /\ Len(FlattenPages(SubSeq(served, 1, Len(served) - 1))) < Len(nftResult)

\* C10 (SpecNFT): no page is requested after the walker has to stop: every
\* request but the last was answered by a page that left fewer than maxNFTs
\* items accumulated and carried a continuation, and the walker returns after
\* the first page that does not; over the "paged" upstream (237 items, pages of
\* 50, maxNFTs = 200) it returns 200 items after 4 page requests.
C10_NoRequestAfterStop ==
    /\ \A j \in 1..Len(served) :
          StopsAfter(j) <=> (j = Len(served) /\ npc = "returned")
    /\ npc = "returned" => pageRequests = Len(served)
    /\ npc = "fetching" => pageRequests = Len(served) + 1
    /\ (npc = "returned" /\ source = "paged") =>
          Len(nftResult) = DefaultMaxNFTs /\ pageRequests = 4

\* C10 witness: the walk over the "paged" upstream has returned.
C10_Witness ==
    /\ source = "paged"
    /\ npc = "returned"
    /\ pageRequests = 4
    /\ Len(nftResult) = 200

\* The walk has ended: fetchAllNFTs returned or rejected.
WalkEnded == npc \in {"returned", "rejected"}
\* The upstreams that end with a page without continuation or serve at
\* least one item on every page.
EndingSources == {"paged", "finite", "nonempty"}

\* C11 (as claimed; SpecNFT): over an upstream that serves empty pages with a
\* continuation forever, fetchAllNFTs never returns.
C11_NeverReturnsOverEmptyPages ==
    source = "empty" => npc # "returned"

\* C11 (amended; FairSpecNFT): a walk over an upstream that ends with a page
\* without continuation, or that serves at least one item on every page, ends;
\* over an upstream that serves empty pages with a continuation forever, a walk
\* with maxNFTs > 0 never returns: after every page it has one more request in
\* flight.  (With maxNFTs = 0 the walk returns after its first page.)
C11_WalkEndsUnlessEmptyPagesForever ==
    /\ (source \in EndingSources /\ npc = "fetching") ~> WalkEnded
    /\ [](source = "empty" /\ maxNFTs > 0 =>
            /\ npc # "returned"
            /\ npc = "fetching" => pageRequests = Len(served) + 1)

\* C11 witness: after three empty pages with a continuation the walk has its
\* fourth request in flight.
C11_Witness ==
    /\ source = "empty" /\ maxNFTs > 0
    /\ Len(served) = 3
    /\ npc = "fetching"
    /\ pageRequests = 4

\* C14 (as claimed; SpecNFT): without a wallet address fetchAllNFTs (and the
\* fetchNFTsForWallet it calls) returns a fallback result: it issues no request
\* and does not reject.
C14_NoWalletDegradesToFallback ==
    (~WalletConfigured(address) /\ npc # "idle") =>
        /\ pageRequests = 0
        /\ npc = "returned"

\* C27 (SpecNFT): the first page request carries no cursor, every later
\* request carries the continuation of the page served just before it, and the
\* walk returns after a page without continuation: no request follows it.
C27_CursorFollowsContinuation ==
    /\ \A j \in 1..Len(served) :
          /\ served[j].cursor = (IF j = 1 THEN 0 ELSE served[j - 1].continuation)
          /\ j > 1 => served[j].cursor # 0
          /\ served[j].continuation = 0 =>
                (j = Len(served) /\ npc = "returned" /\ pageRequests = j)
    /\ npc = "fetching" =>
          continuation = (IF served = <<>> THEN 0
                          ELSE served[Len(served)].continuation)

\* C27 witness: three pages were requested, the second and third with the
\* continuation of the page before, and the third page had no continuation.
C27_Witness ==
    /\ Len(served) = 3
    /\ served[1].cursor = 0
    /\ served[2].cursor = served[1].continuation
    /\ served[3].cursor = served[2].continuation
    /\ served[3].continuation = 0
    /\ Len(ItemsFetched) < maxNFTs
    /\ npc = "returned"

\* C29 (SpecNFT): when a page request fails, or the wallet is not configured,
\* fetchAllNFTs rejects: the failed request is its last, and it returns no
\* item of the pages accumulated before.
C29_PageFailureRejects ==
    /\ nftEvent \in {"http", "network", "noWallet"} <=> npc = "rejected"
    /\ npc = "rejected" =>
          /\ nftResult = <<>>
          /\ pageRequests =
                (IF WalletConfigured(address) THEN Len(served) + 1 ELSE 0)

\* C29 witness: the third page request failed after two pages with items.
C29_Witness ==
    /\ npc = "rejected"
    /\ Len(served) = 2
    /\ pageRequests = 3
    /\ Len(allNFTs) >= 2
    /\ nftEvent = "http"
    /\ nftResult = <<>>

(***************************************************************************)
(* Claims about the mapping of live responses                              *)
(***************************************************************************)
\* C22 (SpecOwnedGames): the playtimeHours of every game is its
\* playtimeMinutes / 60 rounded to one decimal, a half rounded up: in tenths
\* of an hour t, t - 1/2 <= m / 6 < t + 1/2; 18420 minutes give 307.0 hours.
C22_PlaytimeHoursRounded ==
    normDone =>
        \A i \in 1..Len(normOutput) :
            LET m == normOutput[i].playtimeMinutes
                t == normOutput[i].playtimeHours
            IN /\ 6 * t - 3 <= m
               /\ m < 6 * t + 3
               /\ m = 18420 => t = 3070

\* C22 witness: games of 3 minutes (0.05 h, rounded up to 0.1) and of 18420
\* minutes have been mapped.
C22_Witness ==
    /\ normDone
    /\ \E i \in 1..Len(normOutput) :
          normOutput[i].playtimeMinutes = 3 /\ normOutput[i].playtimeHours = 1
    /\ \E i \in 1..Len(normOutput) :
          normOutput[i].playtimeMinutes = 18420 /\ normOutput[i].playtimeHours = 3070

\* C23 (SpecOwnedGames): the games fetchOwnedGames returns are the upstream
\* games, each once, in non-increasing order of playtimeMinutes; games of
\* equal playtime keep their upstream order, so the response alone fixes the
\* result.
C23_GamesSortedPermutation ==
    normDone =>
        /\ Len(normOutput) = Len(normInput)
        /\ \A i \in 1..Len(normInput) :
              \E j \in 1..Len(normOutput) :
                  /\ normOutput[j].appId = normInput[i].appid
                  /\ normOutput[j].playtimeMinutes = normInput[i].playtime_forever
        /\ \A j, k \in 1..Len(normOutput) :
              j < k =>
                  /\ normOutput[j].appId # normOutput[k].appId
                  /\ normOutput[j].playtimeMinutes >= normOutput[k].playtimeMinutes
                  /\ normOutput[j].playtimeMinutes = normOutput[k].playtimeMinutes
                        => normOutput[j].appId < normOutput[k].appId

\* C23 witness: three games, given in increasing order of playtime, two of
\* them with equal playtime, have been sorted.
C23_Witness ==
    /\ normDone
    /\ Len(normInput) = 3
    /\ normInput[1].playtime_forever < normInput[2].playtime_forever
    /\ normInput[2].playtime_forever = normInput[3].playtime_forever
    /\ normOutput[1].appId = 2
    /\ normOutput[2].appId = 3
    /\ normOutput[3].appId = 1

\* C24 (as claimed; SpecLive): the live result of fetchPlayerSummary has every
\* property of the fallback summary set, whatever members the response lacks.
C24_LiveAndFallbackSameProperties ==
    (normDone /\ normFn = "fetchPlayerSummary") =>
        DOMAIN normOutput = DOMAIN GetMockPlayerSummary(now)

\* C25 (as claimed; SpecLive): a member missing from a live response is
\* replaced by a neutral value: 0 for a number, null for a name or an object.
C25_MissingMembersGetNeutralDefaults ==
    /\ (normDone /\ normFn = "fetchCharacterProfile") =>
          normOutput = NormalizeCharacterProfileNeutral(normInput)
    /\ (normDone /\ normFn = "fetchSteamLevel" /\ normInput = <<>>) =>
          normOutput = 0
    /\ (normDone /\ normFn = "fetchMythicPlusProfile") =>
          /\ "mythic_rating" \notin DOMAIN normInput => normOutput.rating = 0
          /\ normOutput.ratingColor = White =>
                ("mythic_rating" \in DOMAIN normInput
                   /\ "color" \in DOMAIN normInput.mythic_rating)

\* C26 (as claimed; SpecMock): two calls of the same mock data function return
\* equal datasets, whenever they are made.
C26_MockCallsReturnEqualDatasets ==
    \A i, j \in DOMAIN mockReturned :
        mockReturned[i].fn = mockReturned[j].fn =>
            mockReturned[i].dataset = mockReturned[j].dataset

\* C28 (Spec): whatever the interleaving of getAccessToken calls and exchange
\* completions, the cached pair changes only when an exchange succeeds; a
\* successful exchange writes both the token and the expiry of its own
\* response, over whatever an earlier completion wrote; a failed exchange
\* leaves both as they were.
C28_CachedPairFromOneExchange ==
    [][LET completed == lastEvent'.kind = "token"
           succeeded == completed /\ lastEvent'.outcome = "ok"
       IN /\ (accessToken' # accessToken \/ tokenExpiry' # tokenExpiry) => succeeded
          /\ succeeded =>
                /\ accessToken' = lastEvent'.ret
                /\ tokenExpiry' = now' + (lastEvent'.expiresIn - 300) * 1000
          /\ (completed /\ ~succeeded) =>
                (accessToken' = accessToken /\ tokenExpiry' = tokenExpiry)]_vars

\* C28 witness: two clients started exchanges while the cache was empty and
\* both succeeded; the cache holds the token of the one that completed last.
C28_Witness ==
    /\ issued = 2
    /\ accessToken = 2
    /\ lastEvent.kind = "token" /\ lastEvent.outcome = "ok"
    /\ \A c \in Clients :
          Len(calls[c]) = 1 /\ calls[c][1].cached = NoToken /\ calls[c][1].net

C30_CurrentLeagueOfReturnedLeagues ==
    poeCall = "returned" =>
        LET leagues == poeBundle.leagues
            items == leagues.items
            challenge ==
                {i \in DOMAIN items :
                    /\ \A word \in {Standard, Hardcore, SSF} :
                          ~Includes(items[i].id, word)
                    /\ "rules" \in DOMAIN items[i]
                    /\ items[i].rules # <<>>}
        IN /\ leagues = pres["leagues"].leagues
           /\ (~leagues.isArray \/ items = <<>>) =>
                 poeBundle.currentLeague = [name |-> "Settlers", type |-> "Challenge League"]
           /\ (leagues.isArray /\ items # <<>> /\ ~HasLeagueWithoutId(leagues)) =>
                 IF challenge = {} THEN poeBundle.currentLeague = items[1]
                 ELSE \E i \in challenge :
                         /\ \A j \in challenge : i <= j
                         /\ poeBundle.currentLeague = items[i]

\* C30 witness: fetchAllPOE2Data has returned live leagues of which the first
\* does not qualify and the second is the current league.
C30_Witness ==
    /\ poeCall = "returned"
    /\ ~pres["leagues"].isMockData
    /\ Len(poeBundle.leagues.items) = 2
    /\ poeBundle.leagues.items[1].id = Standard
    /\ poeBundle.currentLeague = [id |-> Rise, rules |-> <<"rise">>]

====
